---------------------------- MODULE Spec2Model ----------------------------
(***************************************************************************)
(* Model of the function plotter of src/ConsoleApplication7.cpp: the       *)
(* Function hierarchy, Graph (sampling, serialize, deserialize),           *)
(* CoordinateSystem, PlotArea (addGraph, clear, saveToFile, loadFromFile)  *)
(* and the coordinate mapping of GraphPlotter::plot.                       *)
(*                                                                         *)
(* A double is modelled as a decimal fixed-point number: the record        *)
(* [cls |-> "fin", m |-> k] stands for k / Unit, and every arithmetic      *)
(* operation rounds its exact result to the nearest representable value,   *)
(* as IEEE arithmetic does.  NaN and the two infinities are values of      *)
(* their own.  Text (a serialized line, a file) is a sequence of           *)
(* one-character strings, and operator<< / operator>> are modelled         *)
(* character by character.                                                 *)
(***************************************************************************)
EXTENDS Integers, Sequences, FiniteSets, TLC

(***************************************************************************)
(* double                                                                  *)
(***************************************************************************)
\* Number of model units in 1.0: two decimal places.
Unit == 100

Fin(k) == [cls |-> "fin", m |-> k]
NaN == [cls |-> "nan", m |-> 0]
PosInf == [cls |-> "inf", m |-> 1]
NegInf == [cls |-> "inf", m |-> -1]

\* The double nearest to the integer n (the conversion int -> double).
FromInt(n) == Fin(n * Unit)

\* Whole units and hundredths, e.g. Dec(1, 50) = 1.5 and Dec(-0, -20) = -0.2.
Dec(whole, hundredths) == Fin(whole * Unit + (hundredths * Unit) \div 100)

\* F(v), with v evaluated once however often F uses it.
Once(v, F(_)) == CHOOSE r \in {F(x) : x \in {v}} : TRUE

IsFin(a) == a.cls = "fin"
IsNaN(a) == a.cls = "nan"
IsInf(a) == a.cls = "inf"

Abs(n) == IF n < 0 THEN -n ELSE n
Sgn(n) == IF n < 0 THEN -1 ELSE IF n > 0 THEN 1 ELSE 0

\* n / d rounded to the nearest integer, halves away from zero (d > 0).
RoundDivPos(n, d) == (2 * n + d) \div (2 * d)
RoundDiv(n, d) ==
    LET s == Sgn(n) * Sgn(d) IN s * RoundDivPos(Abs(n), Abs(d))

\* The sign of a value: -1, 0 or 1 (NaN has none and is handled before).
SignOf(a) == Sgn(a.m)

fNeg(a) == IF IsNaN(a) THEN NaN ELSE [cls |-> a.cls, m |-> -a.m]

\* a + b
fAdd(a, b) ==
    IF IsNaN(a) \/ IsNaN(b) THEN NaN
    ELSE IF IsInf(a) /\ IsInf(b) THEN (IF a.m = b.m THEN a ELSE NaN)
    ELSE IF IsInf(a) THEN a
    ELSE IF IsInf(b) THEN b
    ELSE Fin(a.m + b.m)

\* a - b
fSub(a, b) == fAdd(a, fNeg(b))

\* a * b.  A whole factor multiplies exactly; this only keeps the
\* intermediate product small.
fMul(a, b) ==
    IF IsNaN(a) \/ IsNaN(b) THEN NaN
    ELSE IF IsInf(a) \/ IsInf(b)
         THEN (IF SignOf(a) * SignOf(b) = 0 THEN NaN
               ELSE [cls |-> "inf", m |-> SignOf(a) * SignOf(b)])
    ELSE IF b.m % Unit = 0 THEN Fin(a.m * (b.m \div Unit))
    ELSE IF a.m % Unit = 0 THEN Fin((a.m \div Unit) * b.m)
    ELSE Fin(RoundDiv(a.m * b.m, Unit))

\* a / b
fDiv(a, b) ==
    IF IsNaN(a) \/ IsNaN(b) THEN NaN
    ELSE IF IsInf(a) /\ IsInf(b) THEN NaN
    ELSE IF IsInf(a) THEN [cls |-> "inf", m |-> a.m * (IF b.m < 0 THEN -1 ELSE 1)]
    ELSE IF IsInf(b) THEN Fin(0)
    ELSE IF b.m = 0
         THEN (IF a.m = 0 THEN NaN ELSE [cls |-> "inf", m |-> Sgn(a.m)])
    ELSE Fin(RoundDiv(a.m * Unit, b.m))

RECURSIVE IntPow(_, _)
IntPow(b, n) == IF n = 0 THEN 1 ELSE b * IntPow(b, n - 1)

\* Whether the finite value e is a whole number.
IsWhole(e) == e.m % Unit = 0

\* b^n for a finite base b and an integer n, rounded once.  A whole base is
\* raised as an integer; this only keeps the intermediate powers small.
PowInt(b, n) ==
    IF n = 0 THEN Fin(Unit)
    ELSE IF n > 0
    THEN (IF IsWhole(b) THEN Fin(IntPow(b.m \div Unit, n) * Unit)
          ELSE Fin(RoundDiv(IntPow(b.m, n), IntPow(Unit, n - 1))))
    ELSE IF b.m = 0 THEN PosInf
    ELSE IF IsWhole(b) THEN Fin(RoundDiv(Unit, IntPow(b.m \div Unit, -n)))
    ELSE Fin(RoundDiv(IntPow(Unit, (-n) + 1), IntPow(b.m, -n)))

\* std::pow(b, e) for a finite base b.  A whole exponent is computed exactly
\* and rounded once; a fractional exponent of a negative base is NaN; a
\* fractional exponent of a positive base is interpolated linearly between
\* the two neighbouring whole powers (the model has no logarithm).
std_pow(b, e) ==
    IF IsFin(e) /\ e.m = 0 THEN Fin(Unit)
    ELSE IF IsNaN(e) \/ IsNaN(b) THEN (IF b = Fin(Unit) THEN Fin(Unit) ELSE NaN)
    ELSE IF IsInf(e) \/ IsInf(b) THEN NaN
    ELSE IF IsWhole(e) THEN PowInt(b, e.m \div Unit)
    ELSE IF b.m < 0 THEN NaN
    ELSE IF b.m = 0 THEN (IF e.m > 0 THEN Fin(0) ELSE PosInf)
    ELSE LET fr == Fin(e.m % Unit)
         IN fMul(PowInt(b, e.m \div Unit),
                 fAdd(Fin(Unit), fMul(fr, fSub(b, Fin(Unit)))))

\* pi in model units.
PiUnits == (314159 * Unit) \div 100000

\* The sine of an angle of k units with 0 <= k <= pi/2, by the Taylor
\* polynomial x - x^3/6 + x^5/120 - x^7/5040 in Horner form, computed with
\* two guard digits and rounded to a unit.
SinFirstQuadrant(k) ==
    LET g == 100
        s == Unit * g
        x == k * g
        x2 == RoundDiv(x * x, s)
        h3 == s - RoundDiv(x2, 42)
        h2 == s - RoundDiv(RoundDiv(x2 * h3, s), 20)
        h1 == s - RoundDiv(RoundDiv(x2 * h2, s), 6)
    IN RoundDiv(RoundDiv(x * h1, s), g)

\* std::sin: the argument is reduced to the first quadrant by the symmetries
\* of the sine.
std_sin(a) ==
    IF ~IsFin(a) THEN NaN
    ELSE LET p == PiUnits
             r == a.m % (2 * p)
             h == IF r >= p THEN r - p ELSE r
             q == IF h > p \div 2 THEN p - h ELSE h
             s == SinFirstQuadrant(q)
         IN Fin(IF r >= p THEN -s ELSE s)

\* std::cos(a) = sin(a + pi/2)
std_cos(a) == IF ~IsFin(a) THEN NaN ELSE std_sin(Fin(a.m + PiUnits \div 2))

(***************************************************************************)
(* Point, Range and the Function hierarchy                                 *)
(***************************************************************************)
Point(x, y) == [x |-> x, y |-> y]
Range(min, max) == [min |-> min, max |-> max]

PolynomialFunction(coeffs) == [kind |-> "poly", coefficients |-> coeffs]
TrigonometricFunction(type, amplitude, frequency, phaseShift) ==
    [kind |-> "trig", type |-> type, amplitude |-> amplitude,
     frequency |-> frequency, phaseShift |-> phaseShift]
ExponentialFunction(coefficient, base) ==
    [kind |-> "exp", coefficient |-> coefficient, base |-> base]

\* The loop of PolynomialFunction::evaluate from index i on (i counts from 0,
\* coefficients[i] is the TLA+ element i + 1).
RECURSIVE PolynomialLoop(_, _, _, _)
PolynomialLoop(coefficients, x, i, result) ==
    IF i < Len(coefficients)
    THEN PolynomialLoop(coefficients, x, i + 1,
             fAdd(result, fMul(coefficients[i + 1], std_pow(x, FromInt(i)))))
    ELSE result

\* The same loop with the exponents counted down from the highest degree.
PolynomialFunction_evaluate_HighestFirst(f, x) ==
    LET rev == [j \in 1..Len(f.coefficients) |->
                   f.coefficients[Len(f.coefficients) + 1 - j]]
    IN PolynomialLoop(rev, x, 0, Fin(0))

PolynomialFunction_evaluate(f, x) == PolynomialLoop(f.coefficients, x, 0, Fin(0))

TrigonometricFunction_evaluate(f, x) ==
    IF f.type = "sin"
    THEN fMul(f.amplitude, std_sin(fAdd(fMul(f.frequency, x), f.phaseShift)))
    ELSE IF f.type = "cos"
    THEN fMul(f.amplitude, std_cos(fAdd(fMul(f.frequency, x), f.phaseShift)))
    ELSE Fin(0)

ExponentialFunction_evaluate(f, x) == fMul(f.coefficient, std_pow(f.base, x))

\* The virtual call function->evaluate(x) on a live function object.
evaluate(f, x) ==
    CASE f.kind = "poly" -> PolynomialFunction_evaluate(f, x)
      [] f.kind = "trig" -> TrigonometricFunction_evaluate(f, x)
      [] f.kind = "exp" -> ExponentialFunction_evaluate(f, x)

(***************************************************************************)
(* Graph                                                                   *)
(***************************************************************************)
\* A Graph object: its points and its Function pointer.  The pointer is the
\* name of the function object it was constructed with, or Uninit in a
\* default-constructed Graph, whose constructor does not set it.
Uninit == "uninit"
Graph(func) == [points |-> <<>>, function |-> func]
DefaultGraph == [points |-> <<>>, function |-> Uninit]

\* The loop of Graph::generatePoints from index i on.
RECURSIVE GenerateLoop(_, _, _, _, _, _)
GenerateLoop(f, min, step, numPoints, i, points) ==
    IF i <= numPoints
    THEN LET x == fAdd(min, fMul(FromInt(i), step))
             y == evaluate(f, x)
         IN GenerateLoop(f, min, step, numPoints, i + 1, Append(points, Point(x, y)))
    ELSE points

\* generatePoints without the points.clear() that starts it.
Graph_generatePoints_Appending(graph, f, xRange, numPoints) ==
    LET step == fDiv(fSub(xRange.max, xRange.min), FromInt(numPoints))
    IN [graph EXCEPT !.points =
            GenerateLoop(f, xRange.min, step, numPoints, 0, graph.points)]

\* generatePoints with the loop bound i < numPoints.
Graph_generatePoints_Exclusive(graph, f, xRange, numPoints) ==
    LET step == fDiv(fSub(xRange.max, xRange.min), FromInt(numPoints))
    IN [graph EXCEPT !.points =
            GenerateLoop(f, xRange.min, step, numPoints - 1, 0, <<>>)]

\* Graph::generatePoints on a graph whose function pointer refers to the
\* live function object f.
Graph_generatePoints(graph, f, xRange, numPoints) ==
    LET step == fDiv(fSub(xRange.max, xRange.min), FromInt(numPoints))
    IN [graph EXCEPT !.points =
            GenerateLoop(f, xRange.min, step, numPoints, 0, <<>>)]

Graph_getPoints(graph) == graph.points

(***************************************************************************)
(* CoordinateSystem                                                        *)
(***************************************************************************)
CoordinateSystem(x, y) == [xRange |-> x, yRange |-> y]

CoordinateSystem_setRanges(cs, newXRange, newYRange) ==
    [xRange |-> newXRange, yRange |-> newYRange]

CoordinateSystem_getXRange(cs) == cs.xRange
CoordinateSystem_getYRange(cs) == cs.yRange

(***************************************************************************)
(* Text: operator<< and operator>> of the standard streams                 *)
(***************************************************************************)
\* Significant digits operator<<(double) writes: the default precision of a
\* stream, which serialize never changes.
Precision == 6

DigitChars == <<"0", "1", "2", "3", "4", "5", "6", "7", "8", "9">>
DigitChar(d) == DigitChars[d + 1]
IsDigit(c) == \E d \in 0..9 : DigitChars[d + 1] = c
DigitVal(c) == CHOOSE d \in 0..9 : DigitChars[d + 1] = c
IsSpace(c) == c \in {" ", "\t", "\n", "\r"}

RECURSIVE NumDigits(_)
NumDigits(n) == IF n < 10 THEN 1 ELSE 1 + NumDigits(n \div 10)

\* Decimal places of a model value.
FracDigits == NumDigits(Unit) - 1

\* The decimal digits of n >= 0, most significant first.
RECURSIVE DigitsOf(_)
DigitsOf(n) == IF n < 10 THEN <<n>> ELSE Append(DigitsOf(n \div 10), n % 10)

RECURSIVE StripTrailingZeros(_)
StripTrailingZeros(ds) ==
    IF Len(ds) > 1 /\ ds[Len(ds)] = 0
    THEN StripTrailingZeros(SubSeq(ds, 1, Len(ds) - 1))
    ELSE ds

Zeros(n) == [i \in 1..n |-> "0"]
CharsOf(ds) == [i \in 1..Len(ds) |-> DigitChar(ds[i])]

\* The text of a value a * 10^-FracDigits, a > 0, in the %g conversion with
\* Precision significant digits: rounded to that many digits, trailing zeros
\* dropped, scientific notation when the decimal exponent is below -4 or not
\* below Precision.
FormatMagnitude(a) ==
    LET nd == NumDigits(a)
        q == IF nd > Precision THEN RoundDivPos(a, IntPow(10, nd - Precision)) ELSE a
        carry == nd > Precision /\ q = IntPow(10, Precision)
        ds == StripTrailingZeros(DigitsOf(IF carry THEN 1 ELSE q))
        X == nd - 1 - FracDigits + (IF carry THEN 1 ELSE 0)
        sig == CharsOf(ds)
    IN IF X < -4 \/ X >= Precision
       THEN <<sig[1]>>
            \o (IF Len(sig) > 1 THEN <<".">> \o SubSeq(sig, 2, Len(sig)) ELSE <<>>)
            \o <<"e", IF X < 0 THEN "-" ELSE "+">>
            \o (IF Abs(X) < 10 THEN <<"0">> ELSE <<>>) \o CharsOf(DigitsOf(Abs(X)))
       ELSE IF X >= 0
       THEN (IF Len(sig) >= X + 1
             THEN SubSeq(sig, 1, X + 1)
             ELSE sig \o Zeros(X + 1 - Len(sig)))
            \o (IF Len(sig) > X + 1
                THEN <<".">> \o SubSeq(sig, X + 2, Len(sig))
                ELSE <<>>)
       ELSE <<"0", ".">> \o Zeros((-X) - 1) \o sig

\* operator<<(std::ostream&, double)
FormatDouble(v) ==
    IF IsNaN(v) THEN <<"n", "a", "n">>
    ELSE IF IsInf(v) THEN (IF v.m < 0 THEN <<"-">> ELSE <<>>) \o <<"i", "n", "f">>
    ELSE IF v.m = 0 THEN <<"0">>
    ELSE (IF v.m < 0 THEN <<"-">> ELSE <<>>) \o FormatMagnitude(Abs(v.m))

\* Length of the longest prefix of s made of digits.
RECURSIVE DigitRun(_)
DigitRun(s) ==
    IF s # <<>> /\ IsDigit(Head(s)) THEN 1 + DigitRun(Tail(s)) ELSE 0

\* The number the first n digits of a digit string denote (0 for none).
RECURSIVE DigitsValueTo(_, _)
DigitsValueTo(s, n) ==
    IF n = 0 THEN 0 ELSE 10 * DigitsValueTo(s, n - 1) + DigitVal(s[n])

DigitsValue(s) == DigitsValueTo(s, Len(s))

Drop(s, n) == SubSeq(s, n + 1, Len(s))

\* The pieces operator>> reads off the front of a text, each with the text
\* left after it: an optional sign, a run of digits, a decimal point with the
\* digits after it, and the letter e with an optional sign and digits.
ScanSign(s) ==
    IF s # <<>> /\ Head(s) \in {"+", "-"}
    THEN [neg |-> Head(s) = "-", rest |-> Tail(s)]
    ELSE [neg |-> FALSE, rest |-> s]

ScanDigits(s) ==
    Once(DigitRun(s), LAMBDA n : [digits |-> SubSeq(s, 1, n), rest |-> Drop(s, n)])

ScanFraction(s) ==
    IF s # <<>> /\ Head(s) = "."
    THEN ScanDigits(Tail(s))
    ELSE [digits |-> <<>>, rest |-> s]

NoExponent(s) == [present |-> FALSE, neg |-> FALSE, digits |-> <<>>, rest |-> s]

ScanExponent(s) ==
    IF s # <<>> /\ Head(s) \in {"e", "E"}
    THEN Once(ScanSign(Tail(s)), LAMBDA sg :
         Once(ScanDigits(sg.rest), LAMBDA d :
              [present |-> TRUE, neg |-> sg.neg, digits |-> d.digits, rest |-> d.rest]))
    ELSE NoExponent(s)

\* The outcome of an extraction from the pieces read: it fails when the
\* mantissa holds no digit or an exponent has no digits, and then 0 is stored.
ExtractedValue(neg, whole, frac, e) ==
    LET ok == Len(whole.digits) + Len(frac.digits) > 0 /\ (e.present => e.digits # <<>>)
        mant == DigitsValue(whole.digits \o frac.digits)
        ex == (IF e.neg THEN -1 ELSE 1) * DigitsValue(e.digits)
        shift == ex - Len(frac.digits) + FracDigits
        mag == IF shift >= 0 THEN mant * IntPow(10, shift)
               ELSE RoundDivPos(mant, IntPow(10, -shift))
    IN [ok |-> ok,
        value |-> IF ok THEN Fin(IF neg THEN -mag ELSE mag) ELSE Fin(0),
        rest |-> e.rest]

\* operator>>(std::istream&, double&) on text s without leading whitespace:
\* an optional sign, digits with at most one decimal point, and after at least
\* one digit an optional exponent.  The characters read are the longest such
\* prefix; rest is the unread text.
ExtractDouble(s) ==
    Once(ScanSign(s), LAMBDA sg :
    Once(ScanDigits(sg.rest), LAMBDA whole :
    Once(ScanFraction(whole.rest), LAMBDA frac :
    Once(IF Len(whole.digits) + Len(frac.digits) > 0
         THEN ScanExponent(frac.rest) ELSE NoExponent(frac.rest), LAMBDA e :
         ExtractedValue(sg.neg, whole, frac, e)))))

\* The last index of the word of s that starts at i.
WordEnd(s, i) ==
    CHOOSE k \in i..Len(s) :
        /\ \A j \in i..k : ~IsSpace(s[j])
        /\ (k = Len(s) \/ IsSpace(s[k + 1]))

RECURSIVE TokensFrom(_, _)
TokensFrom(s, i) ==
    IF i > Len(s) THEN <<>>
    ELSE IF IsSpace(s[i]) THEN TokensFrom(s, i + 1)
    ELSE Once(WordEnd(s, i), LAMBDA e : <<SubSeq(s, i, e)>> \o TokensFrom(s, e + 1))

\* The whitespace-separated words of s, as `iss >> point` reads them.
Tokens(s) == Once(s, LAMBDA text : TokensFrom(text, 1))

\* The index of the first newline of s from i on, or Len(s) + 1.
LineEnd(s, i) ==
    CHOOSE k \in i..(Len(s) + 1) :
        /\ \A j \in i..(k - 1) : s[j] # "\n"
        /\ (k = Len(s) + 1 \/ s[k] = "\n")

RECURSIVE LinesFrom(_, _)
LinesFrom(s, i) ==
    IF i > Len(s) THEN <<>>
    ELSE Once(LineEnd(s, i), LAMBDA e : <<SubSeq(s, i, e - 1)>> \o LinesFrom(s, e + 1))

\* The lines std::getline reads from text s: each ends at a newline or at
\* the end of the text, and the text after the last newline is a line only
\* when it is not empty.
Lines(s) == Once(s, LAMBDA text : LinesFrom(text, 1))

(***************************************************************************)
(* Graph::serialize and Graph::deserialize                                 *)
(***************************************************************************)
\* The loop of serialize from point i on: "x,y " for every point.
RECURSIVE SerializeLoop(_, _)
SerializeLoop(points, i) ==
    IF i <= Len(points)
    THEN FormatDouble(points[i].x) \o <<",">> \o FormatDouble(points[i].y) \o <<" ">>
         \o SerializeLoop(points, i + 1)
    ELSE <<>>

Graph_serialize(graph) == SerializeLoop(graph.points, 1)

\* Whether the body of the loop of deserialize leaves y unassigned on this
\* word: the extraction of x failed (every later extraction is then skipped),
\* or nothing follows x, or nothing follows the separator.
LeavesYUnassigned(word) ==
    LET ex == ExtractDouble(word)
    IN ~ex.ok \/ Len(ex.rest) < 2

\* The point one pass of the loop of deserialize adds for a word:
\* pointStream >> x >> comma >> y, where comma takes any one character.  An
\* extraction that is attempted and fails stores 0; a y never assigned is
\* read uninitialized, and indet is the value that read yields.
PointOfExtraction(ex, indet) ==
    IF ~ex.ok \/ Len(ex.rest) < 2
    THEN Point(ex.value, indet)
    ELSE Point(ex.value, ExtractDouble(Tail(ex.rest)).value)

PointOfWord(word, indet) ==
    Once(ExtractDouble(word), LAMBDA ex : PointOfExtraction(ex, indet))

\* Graph::deserialize.  indet[j] is the value an uninitialized y holds in the
\* pass for the j-th word.
DeserializeWords(graph, words, indet) ==
    [graph EXCEPT !.points =
        [j \in 1..Len(words) |->
            PointOfWord(words[j],
                        IF LeavesYUnassigned(words[j]) THEN indet[j] ELSE Fin(0))]]

\* Whether a word holds a number, a separator and something after it.
AssignsY(word) == ~LeavesYUnassigned(word)

\* deserialize that adds a point only for the words that assign y.
Graph_deserialize_SkipMalformed(graph, data, indet) ==
    Once(SelectSeq(Tokens(data), AssignsY),
         LAMBDA words : DeserializeWords(graph, words, indet))

Graph_deserialize(graph, data, indet) ==
    Once(Tokens(data), LAMBDA words : DeserializeWords(graph, words, indet))

(***************************************************************************)
(* PlotArea                                                                *)
(***************************************************************************)
\* The constructor copies the coordinate system it is given.
PlotArea(cs) == [coordinateSystem |-> cs, graphs |-> <<>>]

\* addGraph that skips a graph equal to one already held.
PlotArea_addGraph_Dedup(pa, graph) ==
    IF \E i \in 1..Len(pa.graphs) : pa.graphs[i] = graph
    THEN pa
    ELSE [pa EXCEPT !.graphs = Append(pa.graphs, graph)]

\* graphs.push_back(graph): graph is a copy of the caller's object.
PlotArea_addGraph(pa, graph) == [pa EXCEPT !.graphs = Append(pa.graphs, graph)]

\* clear that removes nothing.
PlotArea_clear_KeepsGraphs(pa) == pa

PlotArea_clear(pa) == [pa EXCEPT !.graphs = <<>>]

PlotArea_getGraphs(pa) == pa.graphs

\* A file of the file system: whether it exists, and its text.
NoFile == [exists |-> FALSE, content |-> <<>>]
FileOf(text) == [exists |-> TRUE, content |-> text]

\* The loop of saveToFile from graph i on: serialize() and std::endl.
RECURSIVE SaveLoop(_, _)
SaveLoop(graphs, i) ==
    IF i <= Len(graphs)
    THEN Graph_serialize(graphs[i]) \o <<"\n">> \o SaveLoop(graphs, i + 1)
    ELSE <<>>

\* PlotArea::saveToFile: the file it leaves behind (created or truncated).
PlotArea_saveToFile(pa) == FileOf(SaveLoop(pa.graphs, 1))

\* The loop of loadFromFile over the lines read, from line i on.
RECURSIVE LoadLoop(_, _, _, _)
LoadLoop(pa, lines, i, indet) ==
    IF i <= Len(lines)
    THEN LoadLoop(PlotArea_addGraph(pa, Graph_deserialize(DefaultGraph, lines[i], indet[i])),
                  lines, i + 1, indet)
    ELSE pa

\* loadFromFile that returns before clear() when the file cannot be opened.
PlotArea_loadFromFile_KeepOnMissing(pa, file, indet) ==
    IF ~file.exists THEN pa
    ELSE Once(Lines(file.content),
              LAMBDA lines : LoadLoop(PlotArea_clear(pa), lines, 1, indet))

\* loadFromFile without clear().
PlotArea_loadFromFile_NoClear(pa, file, indet) ==
    Once(IF file.exists THEN Lines(file.content) ELSE <<>>,
         LAMBDA lines : LoadLoop(pa, lines, 1, indet))

\* PlotArea::loadFromFile.  A stream on a file that does not exist reads no
\* line.  indet[i][j] is the uninitialized y of word j of line i.
PlotArea_loadFromFile(pa, file, indet) ==
    Once(IF file.exists THEN Lines(file.content) ELSE <<>>,
         LAMBDA lines : LoadLoop(PlotArea_clear(pa), lines, 1, indet))

(***************************************************************************)
(* GraphPlotter::plot                                                      *)
(***************************************************************************)
Scale == 20
OriginPixelX == 400
OriginPixelY == 300

\* The vertex plot draws for a point, without the sign flip of y.
Vertex_NoFlip(p) ==
    [x |-> fAdd(fMul(p.x, FromInt(Scale)), FromInt(OriginPixelX)),
     y |-> fAdd(fMul(p.y, FromInt(Scale)), FromInt(OriginPixelY))]

\* sf::Vector2f(p.x * 20 + 400, -p.y * 20 + 300)
Vertex(p) ==
    [x |-> fAdd(fMul(p.x, FromInt(Scale)), FromInt(OriginPixelX)),
     y |-> fAdd(fMul(fNeg(p.y), FromInt(Scale)), FromInt(OriginPixelY))]

\* The inner loop of plot from index i on (i counts from 0 as in the code):
\* one line from point i - 1 to point i.
RECURSIVE SegmentLoop(_, _)
SegmentLoop(points, i) ==
    IF i < Len(points)
    THEN <<<<Vertex(points[i]), Vertex(points[i + 1])>>>> \o SegmentLoop(points, i + 1)
    ELSE <<>>

\* The outer loop of plot from graph g on.
RECURSIVE PlotLoop(_, _)
PlotLoop(graphs, g) ==
    IF g <= Len(graphs)
    THEN SegmentLoop(Graph_getPoints(graphs[g]), 1) \o PlotLoop(graphs, g + 1)
    ELSE <<>>

\* The lines GraphPlotter::plot draws for the graphs, in drawing order (the
\* grid and the axes it draws first are the same in every frame).
GraphPlotter_plot(pa) == PlotLoop(PlotArea_getGraphs(pa), 1)

(***************************************************************************)
(* State                                                                   *)
(***************************************************************************)
VARIABLES
    functions,          \* the caller's function objects, by variable name
    callerGraphs,       \* the caller's Graph objects, by variable name
    coordinateSystem,   \* the caller's CoordinateSystem
    plotArea,           \* the PlotArea: its own coordinateSystem, its graphs
    files,              \* the file system: file name -> file
    window,             \* the lines of the frame drawn last
    lastCall,           \* history: the operation called last
    calls,              \* history: number of plot-area operations called
    sampled,            \* history: per caller graph, its last generatePoints
    savedGraphs         \* history: per file, the graphs saveToFile wrote

vars == <<functions, callerGraphs, coordinateSystem, plotArea, files, window,
          lastCall, calls, sampled, savedGraphs>>

\* Most graphs the collection holds in the model.
MaxGraphs == 2
\* Largest numPoints passed to generatePoints in the model.
MaxNumPoints == 2
\* Most operations on the plot area in one behaviour of the model.
MaxCalls == 5

FunctionNames == {"polyFunc", "sinFunc", "expFunc"}
GraphNames == {"polyGraph", "sinGraph", "expGraph"}
FileNames == {"graphs.txt"}

\* The function object each caller graph is constructed with.
FunctionOf(g) ==
    CASE g = "polyGraph" -> "polyFunc"
      [] g = "sinGraph" -> "sinFunc"
      [] g = "expGraph" -> "expFunc"

\* Coefficient lists, the exponential function and ranges the caller
\* passes in.
SampleCoefficients ==
    { <<>>,
      <<FromInt(1), FromInt(0), FromInt(-1)>>,
      <<Dec(0, 50), FromInt(2)>> }
SampleExponential == ExponentialFunction(FromInt(2), FromInt(-2))
SampleRanges ==
    { Range(FromInt(0), FromInt(3)),
      Range(FromInt(-1), Dec(0, 25)) }
SampleNumPoints == 0..MaxNumPoints

\* Values a read of an uninitialized double may yield.
IndeterminateValues == { Fin(0), Dec(-9, -25) }

NotSampled == [done |-> FALSE]
NoCall == [op |-> "none"]
NothingSaved == [valid |-> FALSE, graphs |-> <<>>]

\* main, lines 332-336: the ranges, the coordinate system and the plot
\* area as constructed.
MainRange == Range(FromInt(-10), FromInt(10))
MainCoordinateSystem == CoordinateSystem(MainRange, MainRange)
MainPolynomial == PolynomialFunction(<<FromInt(1), FromInt(0), FromInt(-1)>>)
MainSine == TrigonometricFunction("sin", FromInt(1), FromInt(1), FromInt(0))

Constructed ==
    /\ coordinateSystem = MainCoordinateSystem
    /\ plotArea = PlotArea(MainCoordinateSystem)
    /\ window = <<>>
    /\ lastCall = NoCall
    /\ calls = 0
    /\ savedGraphs = [f \in FileNames |-> NothingSaved]

(***************************************************************************)
(* SampleSpec: a caller of Graph and of the Function classes               *)
(***************************************************************************)
SampleInit ==
    /\ Constructed
    /\ functions = [f \in FunctionNames |->
                        CASE f = "polyFunc" -> MainPolynomial
                          [] f = "sinFunc" -> MainSine
                          [] f = "expFunc" -> SampleExponential]
    /\ callerGraphs = [g \in GraphNames |-> Graph(FunctionOf(g))]
    /\ sampled = [g \in GraphNames |-> NotSampled]
    /\ files = [f \in FileNames |-> NoFile]

\* polyFunc = PolynomialFunction({ a, b, c }), with a list of any length.
AssignPolynomial(coeffs) ==
    /\ functions' = [functions EXCEPT !["polyFunc"] = PolynomialFunction(coeffs)]
    /\ lastCall' = [op |-> "assign"]
    /\ UNCHANGED <<callerGraphs, coordinateSystem, plotArea, files, window,
                   calls, sampled, savedGraphs>>

\* g.generatePoints(xRange, numPoints) on a caller graph g.
GeneratePoints(g, xRange, numPoints) ==
    /\ callerGraphs' = [callerGraphs EXCEPT ![g] =
           Graph_generatePoints(@, functions[@.function], xRange, numPoints)]
    /\ sampled' = [sampled EXCEPT ![g] =
           [done |-> TRUE, xRange |-> xRange, numPoints |-> numPoints,
            function |-> functions[callerGraphs[g].function]]]
    /\ lastCall' = [op |-> "generatePoints", graph |-> g,
                    previous |-> Len(callerGraphs[g].points)]
    /\ UNCHANGED <<functions, coordinateSystem, plotArea, files, window,
                   calls, savedGraphs>>

SampleNext ==
    \/ \E c \in SampleCoefficients : AssignPolynomial(c)
    \/ \E g \in GraphNames, r \in SampleRanges, n \in SampleNumPoints :
           GeneratePoints(g, r, n)

SampleSpec == SampleInit /\ [][SampleNext]_vars

(***************************************************************************)
(* Spec: a caller of PlotArea that adds, clears, saves and loads           *)
(***************************************************************************)
\* The function objects and graphs of the caller of the plot area: polyGraph
\* as constructed, sinGraph and expGraph sampled.  expGraph holds a NaN (the
\* negative base at x = 0.5) and values of seven significant digits.
CallerSine == MainSine
CallerExponential == ExponentialFunction(Dec(12345, 67), FromInt(-2))
CallerRange == Range(FromInt(0), FromInt(1))

CallerInit ==
    /\ Constructed
    /\ functions = [f \in FunctionNames |->
                        CASE f = "polyFunc" -> MainPolynomial
                          [] f = "sinFunc" -> CallerSine
                          [] f = "expFunc" -> CallerExponential]
    /\ callerGraphs = [g \in GraphNames |->
           CASE g = "polyGraph" -> Graph("polyFunc")
             [] g = "sinGraph" ->
                   Graph_generatePoints(Graph("sinFunc"), CallerSine, CallerRange, 1)
             [] g = "expGraph" ->
                   Graph_generatePoints(Graph("expFunc"), CallerExponential, CallerRange, 2)]
    /\ sampled = [g \in GraphNames |->
           CASE g = "polyGraph" -> NotSampled
             [] g = "sinGraph" ->
                   [done |-> TRUE, xRange |-> CallerRange, numPoints |-> 1,
                    function |-> CallerSine]
             [] g = "expGraph" ->
                   [done |-> TRUE, xRange |-> CallerRange, numPoints |-> 2,
                    function |-> CallerExponential]]

\* Files found on disk that saveToFile did not write: "1,2 3.5,-4" and
\* "5e+00,6" on two lines, the second without a newline; and a line of the
\* words "1;2", "7" and "x".
TwoLineText ==
    <<"1", ",", "2", " ", "3", ".", "5", ",", "-", "4", "\n",
      "5", "e", "+", "0", "0", ",", "6">>
OddWordsText == <<"1", ";", "2", " ", "7", " ", "x", "\n">>
InitialFiles == {NoFile, FileOf(<<>>), FileOf(TwoLineText), FileOf(OddWordsText)}

Init ==
    /\ CallerInit
    /\ files \in [FileNames -> InitialFiles]

\* plotArea.addGraph(g) with a caller graph g.
AddGraph(g) ==
    /\ calls < MaxCalls
    /\ Len(plotArea.graphs) < MaxGraphs
    /\ plotArea' = PlotArea_addGraph(plotArea, callerGraphs[g])
    /\ lastCall' = [op |-> "addGraph", graph |-> g]
    /\ calls' = calls + 1
    /\ UNCHANGED <<functions, callerGraphs, coordinateSystem, files, window,
                   sampled, savedGraphs>>

\* plotArea.clear()
Clear ==
    /\ calls < MaxCalls
    /\ plotArea' = PlotArea_clear(plotArea)
    /\ lastCall' = [op |-> "clear"]
    /\ calls' = calls + 1
    /\ UNCHANGED <<functions, callerGraphs, coordinateSystem, files, window,
                   sampled, savedGraphs>>

\* plotArea.saveToFile(f)
SaveToFile(f) ==
    /\ calls < MaxCalls
    /\ files' = [files EXCEPT ![f] = PlotArea_saveToFile(plotArea)]
    /\ savedGraphs' = [savedGraphs EXCEPT ![f] =
           [valid |-> TRUE, graphs |-> plotArea.graphs]]
    /\ lastCall' = [op |-> "saveToFile", file |-> f]
    /\ calls' = calls + 1
    /\ UNCHANGED <<functions, callerGraphs, coordinateSystem, plotArea, window,
                   sampled>>

\* The values the uninitialized reads of one deserialize may yield: one per
\* word that leaves y unassigned.
WordChoices(line) ==
    LET words == Tokens(line)
    IN {c \in [1..Len(words) -> IndeterminateValues] :
           \A j \in 1..Len(words) : ~LeavesYUnassigned(words[j]) => c[j] = Fin(0)}

\* The same for every line of a file.
LineChoices(lines) ==
    {c \in [1..Len(lines) -> UNION {WordChoices(lines[i]) : i \in 1..Len(lines)}] :
        \A i \in 1..Len(lines) : c[i] \in WordChoices(lines[i])}

\* plotArea.loadFromFile(f)
LoadFromFile(f) ==
    /\ calls < MaxCalls
    /\ \E indet \in LineChoices(IF files[f].exists THEN Lines(files[f].content) ELSE <<>>) :
           plotArea' = PlotArea_loadFromFile(plotArea, files[f], indet)
    /\ lastCall' = [op |-> "loadFromFile", file |-> f,
                    previous |-> Len(plotArea.graphs)]
    /\ calls' = calls + 1
    /\ UNCHANGED <<functions, callerGraphs, coordinateSystem, files, window,
                   sampled, savedGraphs>>

Next ==
    \/ \E g \in GraphNames : AddGraph(g)
    \/ Clear
    \/ \E f \in FileNames : SaveToFile(f)
    \/ \E f \in FileNames : LoadFromFile(f)

Spec == Init /\ [][Next]_vars

(***************************************************************************)
(* PlotSpec: a caller that adds, clears, changes the ranges, saves and     *)
(* draws frames                                                            *)
(***************************************************************************)
PlotInit ==
    /\ CallerInit
    /\ files = [f \in FileNames |-> NoFile]

\* coordinateSystem.setRanges(newXRange, newYRange) on the caller's
\* coordinate system.
SetRanges(newXRange, newYRange) ==
    /\ calls < MaxCalls
    /\ coordinateSystem' = CoordinateSystem_setRanges(coordinateSystem, newXRange, newYRange)
    /\ lastCall' = [op |-> "setRanges", newXRange |-> newXRange, newYRange |-> newYRange]
    /\ calls' = calls + 1
    /\ UNCHANGED <<functions, callerGraphs, plotArea, files, window, sampled,
                   savedGraphs>>

\* One frame: window.clear(White), graphPlotter.plot(window), display().
DrawFrame ==
    /\ calls < MaxCalls
    /\ window' = GraphPlotter_plot(plotArea)
    /\ lastCall' = [op |-> "drawFrame"]
    /\ calls' = calls + 1
    /\ UNCHANGED <<functions, callerGraphs, coordinateSystem, plotArea, files,
                   sampled, savedGraphs>>

PlotNext ==
    \/ \E g \in GraphNames : AddGraph(g)
    \/ Clear
    \/ \E x \in SampleRanges, y \in SampleRanges : SetRanges(x, y)
    \/ \E f \in FileNames : SaveToFile(f)
    \/ DrawFrame

PlotSpec == PlotInit /\ [][PlotNext]_vars

(***************************************************************************)
(* DeserializeSpec: a caller of Graph::deserialize                         *)
(***************************************************************************)
\* Lines handed to deserialize: no word; two well-formed words; a word with
\* another separator, one without separator and one without number; and
\* surrounding blanks with a word whose number is written "nan".
SampleLines ==
    { <<>>,
      <<"1", ",", "2", " ", "3", ".", "5", ",", "-", "4">>,
      <<"1", ";", "2", " ", "7", " ", "x">>,
      <<" ", " ", "5", "e", "+", "0", "0", ",", "6", "\t", "n", "a", "n", ",", "1", " ">> }

DeserializeInit == PlotInit

\* g.deserialize(data) on a caller graph g.
Deserialize(g, data) ==
    /\ calls < MaxCalls
    /\ \E indet \in WordChoices(data) :
           callerGraphs' = [callerGraphs EXCEPT ![g] = Graph_deserialize(@, data, indet)]
    /\ lastCall' = [op |-> "deserialize", graph |-> g, data |-> data,
                    previous |-> Len(callerGraphs[g].points)]
    /\ calls' = calls + 1
    /\ UNCHANGED <<functions, coordinateSystem, plotArea, files, window,
                   sampled, savedGraphs>>

DeserializeNext ==
    \E g \in {"polyGraph", "sinGraph"}, data \in SampleLines : Deserialize(g, data)

DeserializeSpec == DeserializeInit /\ [][DeserializeNext]_vars

(***************************************************************************)
(* CopySpec: a caller that samples and reassigns after adding              *)
(***************************************************************************)
\* The plot area after a write to a Graph object of the caller that changes
\* it from old to new, were the graphs it holds the caller's objects.
PlotArea_afterCallerWrite_Shared(pa, old, new) ==
    [pa EXCEPT !.graphs =
        [i \in 1..Len(pa.graphs) |-> IF pa.graphs[i] = old THEN new ELSE pa.graphs[i]]]

\* The plot area after a write to a Graph object of the caller: addGraph
\* takes its argument by value and push_back copies it, so the graphs held
\* share no storage with the caller's object.
PlotArea_afterCallerWrite(pa, old, new) == pa

CopyInit ==
    /\ CallerInit
    /\ files = [f \in FileNames |-> FileOf(OddWordsText)]

\* g.generatePoints(xRange, numPoints) on a caller graph, after which the
\* plot area is what the write to g leaves of it.
Resample(g, xRange, numPoints) ==
    /\ calls < MaxCalls
    /\ LET new == Graph_generatePoints(callerGraphs[g], functions[callerGraphs[g].function],
                                       xRange, numPoints)
       IN /\ callerGraphs' = [callerGraphs EXCEPT ![g] = new]
          /\ plotArea' = PlotArea_afterCallerWrite(plotArea, callerGraphs[g], new)
    /\ sampled' = [sampled EXCEPT ![g] =
           [done |-> TRUE, xRange |-> xRange, numPoints |-> numPoints,
            function |-> functions[callerGraphs[g].function]]]
    /\ lastCall' = [op |-> "generatePoints", graph |-> g,
                    previous |-> Len(callerGraphs[g].points)]
    /\ calls' = calls + 1
    /\ UNCHANGED <<functions, coordinateSystem, files, window, savedGraphs>>

\* polyFunc = PolynomialFunction(coeffs): the object polyGraph and its copies
\* point to gets a new value.
Reassign(coeffs) ==
    /\ calls < MaxCalls
    /\ functions' = [functions EXCEPT !["polyFunc"] = PolynomialFunction(coeffs)]
    /\ lastCall' = [op |-> "assign"]
    /\ calls' = calls + 1
    /\ UNCHANGED <<callerGraphs, coordinateSystem, plotArea, files, window,
                   sampled, savedGraphs>>

CopyNext ==
    \/ \E c \in SampleCoefficients \ {<<>>} : Reassign(c)
    \/ \E g \in {"polyGraph", "sinGraph"}, r \in SampleRanges :
           Resample(g, r, MaxNumPoints)
    \/ \E g \in {"polyGraph", "sinGraph"} : AddGraph(g)
    \/ Clear
    \/ \E f \in FileNames : LoadFromFile(f)

CopySpec == CopyInit /\ [][CopyNext]_vars

(***************************************************************************)
(* MenuSpec: the loop of main, one step per pass                           *)
(***************************************************************************)
\* Intervals per sampling in the menu loop.  main passes 100 to every
\* generatePoints; the model samples with fewer.
MenuNumPoints == 2

\* Most passes of the loop in one behaviour of the model.
MaxPasses == 4

\* A function object or a Graph object of main that does not exist: the
\* block that declares it has not been entered, or has been left.
Destroyed == [kind |-> "destroyed"]

\* Whether a Function pointer refers to a function object that is alive,
\* among the function objects fs.
Alive(fs, pointer) == pointer # Uninit /\ fs[pointer] # Destroyed

\* function->evaluate in generatePoints: which pointer a call on the graph
\* named name dereferences, and whether its target is alive then.
Dereference(fs, name, graph) ==
    [graph |-> name, pointer |-> graph.function,
     alive |-> Alive(fs, graph.function)]

\* The graphs generatePoints(xRange, 100) may leave.  Through a pointer whose
\* target is not alive the call is undefined: the points may stay, or may be
\* computed from whatever the storage holds.
SampleOutcomes(fs, graph, xRange) ==
    IF Alive(fs, graph.function)
    THEN {Graph_generatePoints(graph, fs[graph.function], xRange, MenuNumPoints)}
    ELSE {graph} \cup
         {Graph_generatePoints(graph, PolynomialFunction(<<v>>), xRange, MenuNumPoints) :
              v \in IndeterminateValues}

\* What generatePoints was last called with, for the history.
SampleRecord(fs, graph, xRange) ==
    [done |-> TRUE, xRange |-> xRange, numPoints |-> MenuNumPoints,
     function |-> IF Alive(fs, graph.function) THEN fs[graph.function] ELSE Destroyed]

\* ExponentialFunction expFunc(coefficient, base) of case 3, skipped.
ConstructExponential_Skipped(fs, coefficient, base) == fs

\* ExponentialFunction expFunc(coefficient, base) of case 3.
ConstructExponential(fs, coefficient, base) ==
    [fs EXCEPT !["expFunc"] = ExponentialFunction(coefficient, base)]

\* The end of the block of case 3: expFunc and expGraph are destroyed.
LeaveBlock(objects, name) == [objects EXCEPT ![name] = Destroyed]

\* Numbers typed at the prompts of the menu.
MenuCoefficients ==
    { <<FromInt(1), FromInt(0), FromInt(-1)>>,
      <<FromInt(0), Dec(0, 50), FromInt(2)>> }
MenuTrigonometric == { <<FromInt(2), FromInt(1), FromInt(0)>> }
MenuExponential == { <<FromInt(1), FromInt(2)>>, <<FromInt(3), FromInt(-2)>> }
MenuXRanges == { Range(FromInt(0), FromInt(3)), Range(FromInt(-1), Dec(0, 25)) }
MenuYRanges == { Range(FromInt(-5), FromInt(5)) }

\* main before the loop, lines 329-349: polyGraph and sinGraph sampled over
\* xRange and added.
MenuInit ==
    /\ coordinateSystem = MainCoordinateSystem
    /\ functions = [f \in FunctionNames |->
                        CASE f = "polyFunc" -> MainPolynomial
                          [] f = "sinFunc" -> MainSine
                          [] f = "expFunc" -> Destroyed]
    /\ callerGraphs = [g \in GraphNames |->
           CASE g = "polyGraph" ->
                   Graph_generatePoints(Graph("polyFunc"), MainPolynomial,
                                        MainRange, MenuNumPoints)
             [] g = "sinGraph" ->
                   Graph_generatePoints(Graph("sinFunc"), MainSine,
                                        MainRange, MenuNumPoints)
             [] g = "expGraph" -> Destroyed]
    /\ plotArea = PlotArea_addGraph(
                      PlotArea_addGraph(PlotArea(MainCoordinateSystem),
                                        callerGraphs["polyGraph"]),
                      callerGraphs["sinGraph"])
    /\ sampled = [g \in GraphNames |->
           CASE g = "polyGraph" ->
                   SampleRecord(functions, Graph("polyFunc"), MainRange)
             [] g = "sinGraph" ->
                   SampleRecord(functions, Graph("sinFunc"), MainRange)
             [] g = "expGraph" -> NotSampled]
    /\ files \in [FileNames -> {NoFile, FileOf(OddWordsText)}]
    /\ window = <<>>
    /\ lastCall = NoCall
    /\ calls = 0
    /\ savedGraphs = [f \in FileNames |-> NothingSaved]

\* The start of a pass of the loop, lines 352-371: the window is open, the
\* frame is drawn, the menu is shown and a choice is read.
Pass ==
    /\ lastCall.op # "exit"
    /\ calls < MaxPasses
    /\ calls' = calls + 1
    /\ window' = GraphPlotter_plot(plotArea)

\* The history of a pass: the choice, the graphs held before it, and the
\* pointers generatePoints dereferenced in it.
Menu(choice, dereferenced) ==
    [op |-> "menu", choice |-> choice, before |-> plotArea.graphs,
     dereferenced |-> dereferenced]

\* case 1: polyFunc is reassigned, polyGraph sampled again, and the plot
\* area cleared and given polyGraph.
Choice1(coeffs) ==
    /\ Pass
    /\ LET fs == [functions EXCEPT !["polyFunc"] = PolynomialFunction(coeffs)]
           xRange == CoordinateSystem_getXRange(coordinateSystem)
       IN /\ functions' = fs
          /\ \E g \in SampleOutcomes(fs, callerGraphs["polyGraph"], xRange) :
                /\ callerGraphs' = [callerGraphs EXCEPT !["polyGraph"] = g]
                /\ plotArea' = PlotArea_addGraph(PlotArea_clear(plotArea), g)
          /\ sampled' = [sampled EXCEPT !["polyGraph"] =
                 SampleRecord(fs, callerGraphs["polyGraph"], xRange)]
          /\ lastCall' = Menu(1, <<Dereference(fs, "polyGraph", callerGraphs["polyGraph"])>>)
    /\ UNCHANGED <<coordinateSystem, files, savedGraphs>>

\* case 2: the same for sinFunc and sinGraph.
Choice2(amplitude, frequency, phase) ==
    /\ Pass
    /\ LET fs == [functions EXCEPT !["sinFunc"] =
                     TrigonometricFunction("sin", amplitude, frequency, phase)]
           xRange == CoordinateSystem_getXRange(coordinateSystem)
       IN /\ functions' = fs
          /\ \E g \in SampleOutcomes(fs, callerGraphs["sinGraph"], xRange) :
                /\ callerGraphs' = [callerGraphs EXCEPT !["sinGraph"] = g]
                /\ plotArea' = PlotArea_addGraph(PlotArea_clear(plotArea), g)
          /\ sampled' = [sampled EXCEPT !["sinGraph"] =
                 SampleRecord(fs, callerGraphs["sinGraph"], xRange)]
          /\ lastCall' = Menu(2, <<Dereference(fs, "sinGraph", callerGraphs["sinGraph"])>>)
    /\ UNCHANGED <<coordinateSystem, files, savedGraphs>>

\* case 3: expFunc and expGraph are objects of the block; expGraph is
\* sampled, the plot area cleared and given a copy of it, and the block left.
Choice3(coefficient, base) ==
    /\ Pass
    /\ LET fs == ConstructExponential(functions, coefficient, base)
           expGraph == Graph("expFunc")
           xRange == CoordinateSystem_getXRange(coordinateSystem)
       IN /\ \E g \in SampleOutcomes(fs, expGraph, xRange) :
                plotArea' = PlotArea_addGraph(PlotArea_clear(plotArea), g)
          /\ functions' = LeaveBlock(fs, "expFunc")
          /\ callerGraphs' = LeaveBlock(callerGraphs, "expGraph")
          /\ sampled' = [sampled EXCEPT !["expGraph"] = SampleRecord(fs, expGraph, xRange)]
          /\ lastCall' = Menu(3, <<Dereference(fs, "expGraph", expGraph)>>)
    /\ UNCHANGED <<coordinateSystem, files, savedGraphs>>

\* case 4: the ranges of main's coordinate system are replaced, polyGraph
\* and sinGraph sampled over the new X range, and the plot area cleared and
\* given both.
Choice4(newXRange, newYRange) ==
    /\ Pass
    /\ LET cs == CoordinateSystem_setRanges(coordinateSystem, newXRange, newYRange)
           xRange == CoordinateSystem_getXRange(cs)
       IN /\ coordinateSystem' = cs
          /\ \E p \in SampleOutcomes(functions, callerGraphs["polyGraph"], xRange),
                s \in SampleOutcomes(functions, callerGraphs["sinGraph"], xRange) :
                /\ callerGraphs' = [callerGraphs EXCEPT !["polyGraph"] = p,
                                                        !["sinGraph"] = s]
                /\ plotArea' = PlotArea_addGraph(
                                   PlotArea_addGraph(PlotArea_clear(plotArea), p), s)
          /\ sampled' = [sampled EXCEPT
                 !["polyGraph"] = SampleRecord(functions, callerGraphs["polyGraph"], xRange),
                 !["sinGraph"] = SampleRecord(functions, callerGraphs["sinGraph"], xRange)]
          /\ lastCall' = Menu(4, <<Dereference(functions, "polyGraph", callerGraphs["polyGraph"]),
                                   Dereference(functions, "sinGraph", callerGraphs["sinGraph"])>>)
    /\ UNCHANGED <<functions, files, savedGraphs>>

\* case 5: graphPlotter.clear(), which clears the plot area, and
\* plotArea.clear().
Choice5 ==
    /\ Pass
    /\ plotArea' = PlotArea_clear(PlotArea_clear(plotArea))
    /\ lastCall' = Menu(5, <<>>)
    /\ UNCHANGED <<functions, callerGraphs, coordinateSystem, files, sampled,
                   savedGraphs>>

\* case 6: plotArea.saveToFile(filename)
Choice6(f) ==
    /\ Pass
    /\ files' = [files EXCEPT ![f] = PlotArea_saveToFile(plotArea)]
    /\ savedGraphs' = [savedGraphs EXCEPT ![f] =
           [valid |-> TRUE, graphs |-> plotArea.graphs]]
    /\ lastCall' = Menu(6, <<>>)
    /\ UNCHANGED <<functions, callerGraphs, coordinateSystem, plotArea, sampled>>

\* case 7: plotArea.loadFromFile(filename)
Choice7(f) ==
    /\ Pass
    /\ \E indet \in LineChoices(IF files[f].exists THEN Lines(files[f].content) ELSE <<>>) :
           plotArea' = PlotArea_loadFromFile(plotArea, files[f], indet)
    /\ lastCall' = Menu(7, <<>>)
    /\ UNCHANGED <<functions, callerGraphs, coordinateSystem, files, sampled,
                   savedGraphs>>

\* case 8: window.close(); the loop ends.
Choice8 ==
    /\ Pass
    /\ lastCall' = [op |-> "exit"]
    /\ UNCHANGED <<functions, callerGraphs, coordinateSystem, plotArea, files,
                   sampled, savedGraphs>>

\* default: a message, and the next pass.
ChoiceDefault ==
    /\ Pass
    /\ lastCall' = Menu(0, <<>>)
    /\ UNCHANGED <<functions, callerGraphs, coordinateSystem, plotArea, files,
                   sampled, savedGraphs>>

MenuNext ==
    \/ \E c \in MenuCoefficients : Choice1(c)
    \/ \E t \in MenuTrigonometric : Choice2(t[1], t[2], t[3])
    \/ \E e \in MenuExponential : Choice3(e[1], e[2])
    \/ \E x \in MenuXRanges, y \in MenuYRanges : Choice4(x, y)
    \/ Choice5
    \/ \E f \in FileNames : Choice6(f)
    \/ \E f \in FileNames : Choice7(f)
    \/ Choice8
    \/ ChoiceDefault

MenuSpec == MenuInit /\ [][MenuNext]_vars

(***************************************************************************)
(* Properties of sampling and of the polynomial (SampleSpec)               *)
(***************************************************************************)
\* Caller graphs whose last generatePoints had numPoints >= 1.
SampledGraphs ==
    {g \in GraphNames : sampled[g].done /\ sampled[g].numPoints >= 1}

\* C2: after any sequence of generatePoints calls with numPoints >= 1, a
\* graph holds exactly numPoints + 1 points, those of its most recent call
\* (they start at that call's range minimum): every call replaces the points
\* held before and appends nothing to them.
C2_SampleReplacesPoints ==
    \A g \in SampledGraphs :
        /\ Len(callerGraphs[g].points) = sampled[g].numPoints + 1
        /\ callerGraphs[g].points[1].x = sampled[g].xRange.min

\* A graph that held points of an earlier call when it was sampled again.
C2_Witness ==
    /\ lastCall.op = "generatePoints"
    /\ lastCall.graph \in SampledGraphs
    /\ lastCall.previous > sampled[lastCall.graph].numPoints + 1
    /\ Len(callerGraphs[lastCall.graph].points) = sampled[lastCall.graph].numPoints + 1

\* C3: for a range with min < max and numPoints = n >= 1 the i-th point
\* (i = 0..n) has x = min + i * step with step = (max - min) / n, so the first
\* x is min and the last is min + n * ((max - min) / n), and y is the
\* function's evaluate at that x.
C3_SampleGrid ==
    \A g \in SampledGraphs :
        LET min == sampled[g].xRange.min
            max == sampled[g].xRange.max
            n == sampled[g].numPoints
            step == fDiv(fSub(max, min), FromInt(n))
            pts == callerGraphs[g].points
        IN min.m < max.m =>
              /\ Len(pts) = n + 1
              /\ \A i \in 0..n :
                    /\ pts[i + 1].x = fAdd(min, fMul(FromInt(i), step))
                    /\ pts[i + 1].y = evaluate(sampled[g].function, pts[i + 1].x)
              /\ pts[1].x = min
              /\ pts[n + 1].x = fAdd(min, fMul(FromInt(n), step))

\* A sampled graph whose last x differs from max, the step being rounded.
C3_Witness ==
    \E g \in SampledGraphs :
        /\ sampled[g].xRange.min.m < sampled[g].xRange.max.m
        /\ Len(callerGraphs[g].points) = sampled[g].numPoints + 1
        /\ callerGraphs[g].points[sampled[g].numPoints + 1].x # sampled[g].xRange.max

\* x^k for a whole k >= 0: the exact power, rounded once.
Power(x, k) ==
    IF k = 0 THEN Fin(Unit)
    ELSE IF IsFin(x) THEN Fin(RoundDiv(IntPow(x.m, k), IntPow(Unit, k - 1)))
    ELSE NaN

\* c[1] * x^0 + ... + c[n] * x^(n-1): the element i of the list, counted
\* from 0, multiplies x^i.
RECURSIVE SumOfTerms(_, _, _)
SumOfTerms(c, x, n) ==
    IF n = 0 THEN Fin(0)
    ELSE fAdd(SumOfTerms(c, x, n - 1), fMul(c[n], Power(x, n - 1)))

\* Caller graphs last sampled through a polynomial.
PolynomialGraphs ==
    {g \in GraphNames : sampled[g].done /\ sampled[g].function.kind = "poly"}

C9_PolynomialExample ==
    \A g \in PolynomialGraphs :
        sampled[g].function.coefficients = <<FromInt(1), FromInt(0), FromInt(-1)>> =>
            \A j \in 1..Len(callerGraphs[g].points) :
                callerGraphs[g].points[j].x = FromInt(3) =>
                    callerGraphs[g].points[j].y = FromInt(8)

(***************************************************************************)
(* Properties of saving and loading (Spec)                                 *)
(***************************************************************************)
\* The value the text written for v denotes: v rounded to Precision
\* significant digits; a NaN or an infinity is written by name.
AsWritten(v) ==
    IF IsFin(v) /\ NumDigits(Abs(v.m)) > Precision
    THEN LET scale == IntPow(10, NumDigits(Abs(v.m)) - Precision)
         IN Fin(Sgn(v.m) * RoundDivPos(Abs(v.m), scale) * scale)
    ELSE v

\* The file of the last call exists and saveToFile wrote it.
LoadedASavedFile ==
    /\ lastCall.op = "loadFromFile"
    /\ savedGraphs[lastCall.file].valid

\* C1: saveToFile followed by loadFromFile of the same file yields the same
\* number of curves in the same order, each with the same ordered sequence
\* of points as written, whatever the collection saved held.
C1_RoundTrip ==
    LoadedASavedFile =>
        LET saved == savedGraphs[lastCall.file].graphs
            loaded == plotArea.graphs
        IN /\ Len(loaded) = Len(saved)
           /\ \A i \in 1..Len(saved) :
                 /\ Len(loaded[i].points) = Len(saved[i].points)
                 /\ \A j \in 1..Len(saved[i].points) :
                       loaded[i].points[j] =
                           Point(AsWritten(saved[i].points[j].x),
                                 AsWritten(saved[i].points[j].y))

\* The number of lines of a text: one per newline, and one more for text
\* after the last newline.
LineCount(s) ==
    Cardinality({k \in 1..Len(s) : s[k] = "\n"})
        + (IF s # <<>> /\ s[Len(s)] # "\n" THEN 1 ELSE 0)

\* The lines of a file as loadFromFile finds it.
LinesOfFile(file) == IF file.exists THEN Lines(file.content) ELSE <<>>

\* C4: loadFromFile removes every curve the collection held and appends one
\* new curve per line of the file, in file order: after the load the
\* collection holds exactly the curves of the lines, each without a function
\* and with the points deserialize reads from its line.
C4_LoadReplaces ==
    lastCall.op = "loadFromFile" =>
        LET lines == LinesOfFile(files[lastCall.file])
        IN /\ Len(plotArea.graphs) = Len(lines)
           /\ Len(lines) = (IF files[lastCall.file].exists
                            THEN LineCount(files[lastCall.file].content) ELSE 0)
           /\ \A i \in 1..Len(lines) :
                 /\ plotArea.graphs[i].function = Uninit
                 /\ \E indet \in WordChoices(lines[i]) :
                       plotArea.graphs[i] = Graph_deserialize(DefaultGraph, lines[i], indet)

\* A load of a file of two lines into a collection that held one curve.
C4_Witness ==
    /\ lastCall.op = "loadFromFile"
    /\ lastCall.previous = 1
    /\ Len(plotArea.graphs) = 2
    /\ plotArea.graphs[1].points # <<>>
    /\ plotArea.graphs[1] # plotArea.graphs[2]

\* C5: loading a file that does not exist, or an empty one, completes and
\* leaves the collection empty, however many curves it held before.
C5_LoadOfNothing ==
    (/\ lastCall.op = "loadFromFile"
     /\ ~files[lastCall.file].exists \/ files[lastCall.file].content = <<>>)
        => plotArea.graphs = <<>>

\* A load of a file that does not exist into a collection that held two
\* curves.
C5_Witness ==
    /\ lastCall.op = "loadFromFile"
    /\ ~files[lastCall.file].exists
    /\ lastCall.previous = 2
    /\ plotArea.graphs = <<>>

(***************************************************************************)
(* Properties of the collection and of drawing (PlotSpec)                  *)
(***************************************************************************)
\* C6: after setRanges(newXRange, newYRange) the coordinate system of the
\* plot area is the new one, both ranges replaced together, and every graph
\* the plot area holds has the points it had before the call.
C6_SetRangesReachesPlotArea ==
    [][lastCall'.op = "setRanges" =>
          /\ plotArea'.coordinateSystem =
                 CoordinateSystem(lastCall'.newXRange, lastCall'.newYRange)
          /\ plotArea'.graphs = plotArea.graphs]_vars

\* The lines of a frame for one graph: from each point to the next.
SegmentsOf(graph) ==
    [i \in 1..(IF Len(graph.points) = 0 THEN 0 ELSE Len(graph.points) - 1) |->
        <<Vertex(graph.points[i]), Vertex(graph.points[i + 1])>>]

RECURSIVE Concatenation(_, _)
Concatenation(seqs, n) ==
    IF n = 0 THEN <<>> ELSE Concatenation(seqs, n - 1) \o seqs[n]

\* C7: the graphs the plot area holds are those added since the last clear,
\* in insertion order: addGraph appends at the end even a graph already
\* held, clear empties the sequence, no other call changes it, and
\* saveToFile and plot go through it in that order.
C7_InsertionOrder ==
    [][/\ lastCall'.op = "addGraph" =>
              plotArea'.graphs = Append(plotArea.graphs, callerGraphs[lastCall'.graph])
       /\ lastCall'.op = "clear" => plotArea'.graphs = <<>>
       /\ lastCall'.op \notin {"addGraph", "clear"} => plotArea'.graphs = plotArea.graphs
       /\ lastCall'.op = "saveToFile" =>
              Lines(files'[lastCall'.file].content) =
                  [i \in 1..Len(plotArea.graphs) |-> Graph_serialize(plotArea.graphs[i])]
       /\ lastCall'.op = "drawFrame" =>
              window' = Concatenation([i \in 1..Len(plotArea.graphs) |->
                                          SegmentsOf(plotArea.graphs[i])],
                                      Len(plotArea.graphs))]_vars

\* The same graph held twice, saved as two lines.
C7_Witness ==
    /\ lastCall.op = "saveToFile"
    /\ Len(plotArea.graphs) = 2
    /\ plotArea.graphs[1] = plotArea.graphs[2]
    /\ plotArea.graphs[1].points # <<>>
    /\ Len(Lines(files[lastCall.file].content)) = 2

\* x * 20 + 400 and -y * 20 + 300 in the arithmetic of doubles.
PixelX(x) == IF IsFin(x) THEN Fin(x.m * 20 + 400 * Unit) ELSE x
PixelY(y) ==
    IF IsFin(y) THEN Fin(300 * Unit - y.m * 20)
    ELSE IF IsNaN(y) THEN NaN
    ELSE IF y = PosInf THEN NegInf ELSE PosInf

\* C10: every point drawn is drawn at pixelX = x * 20 + 400 and
\* pixelY = -y * 20 + 300, whatever the ranges of the coordinate system; the
\* point (0, 0) is drawn at (400, 300).
C10_PixelMapping ==
    lastCall.op = "drawFrame" =>
        /\ Len(window) = Len(Concatenation([i \in 1..Len(plotArea.graphs) |->
                                               SegmentsOf(plotArea.graphs[i])],
                                           Len(plotArea.graphs)))
        /\ \A g \in 1..Len(plotArea.graphs) :
              \A i \in 1..Len(plotArea.graphs[g].points) :
                 LET p == plotArea.graphs[g].points[i]
                     pixel == [x |-> PixelX(p.x), y |-> PixelY(p.y)]
                 IN /\ Vertex(p) = pixel
                    /\ Len(plotArea.graphs[g].points) > 1 =>
                           \E k \in 1..Len(window) : pixel \in {window[k][1], window[k][2]}
                    /\ p = Point(FromInt(0), FromInt(0)) =>
                           pixel = [x |-> FromInt(400), y |-> FromInt(300)]

\* A frame drawn after the ranges were changed, with the point (0, 0) at
\* (400, 300) joined to a point above the axis.
C10_Witness ==
    /\ lastCall.op = "drawFrame"
    /\ coordinateSystem # MainCoordinateSystem
    /\ \E k \in 1..Len(window) :
          /\ window[k][1] = [x |-> FromInt(400), y |-> FromInt(300)]
          /\ window[k][2].y.m < 300 * Unit

(***************************************************************************)
(* Properties of the menu loop (MenuSpec)                                  *)
(***************************************************************************)
\* graph holds the pointer and the MenuNumPoints + 1 points of a sampling of
\* the function f over xRange.
FreshlySampled(graph, pointer, f, xRange) ==
    LET step == fDiv(fSub(xRange.max, xRange.min), FromInt(MenuNumPoints))
    IN /\ graph.function = pointer
       /\ Len(graph.points) = MenuNumPoints + 1
       /\ \A i \in 0..MenuNumPoints :
             /\ graph.points[i + 1].x = fAdd(xRange.min, fMul(FromInt(i), step))
             /\ graph.points[i + 1].y = evaluate(f, graph.points[i + 1].x)

\* C11: right after choice 1, 2 or 3 the plot area holds exactly one graph,
\* the polynomial, trigonometric or exponential one just sampled; right
\* after choice 4 exactly two, the polynomial and then the sine, both sampled
\* over the new X range; right after choice 5 none; whatever it held before.
C11_MenuCollection ==
    lastCall.op = "menu" =>
        LET graphs == plotArea.graphs
            xRange == coordinateSystem.xRange
        IN /\ lastCall.choice = 1 =>
                 /\ Len(graphs) = 1
                 /\ FreshlySampled(graphs[1], "polyFunc", functions["polyFunc"], xRange)
           /\ lastCall.choice = 2 =>
                 /\ Len(graphs) = 1
                 /\ FreshlySampled(graphs[1], "sinFunc", functions["sinFunc"], xRange)
           /\ lastCall.choice = 3 =>
                 /\ Len(graphs) = 1
                 /\ sampled["expGraph"].function.kind = "exp"
                 /\ FreshlySampled(graphs[1], "expFunc", sampled["expGraph"].function, xRange)
           /\ lastCall.choice = 4 =>
                 /\ Len(graphs) = 2
                 /\ FreshlySampled(graphs[1], "polyFunc", functions["polyFunc"], xRange)
                 /\ FreshlySampled(graphs[2], "sinFunc", functions["sinFunc"], xRange)
           /\ lastCall.choice = 5 => graphs = <<>>

\* Choice 4 made while a loaded graph was displayed, after the ranges had
\* been changed from those main starts with.
C11_Witness ==
    /\ lastCall.op = "menu"
    /\ lastCall.choice = 4
    /\ Len(lastCall.before) = 1
    /\ lastCall.before[1].function = Uninit
    /\ Len(plotArea.graphs) = 2
    /\ coordinateSystem.xRange # MainRange

\* C12: in every pass of the loop, each Function pointer generatePoints
\* dereferences belongs to a Graph object of main, is set, and refers to a
\* function object alive at the call: generatePoints is not called on a
\* graph the plot area holds, on a loaded graph, or on expGraph after
\* expFunc is destroyed.
C12_DereferencesAlive ==
    lastCall.op = "menu" =>
        /\ \A i \in 1..Len(lastCall.dereferenced) :
              LET d == lastCall.dereferenced[i]
              IN /\ d.graph \in GraphNames
                 /\ d.pointer = FunctionOf(d.graph)
                 /\ d.pointer # Uninit
                 /\ d.alive
        /\ lastCall.choice \in {1, 2, 3} => Len(lastCall.dereferenced) = 1
        /\ lastCall.choice = 4 => Len(lastCall.dereferenced) = 2
        /\ lastCall.choice \notin {1, 2, 3, 4} => lastCall.dereferenced = <<>>

\* Choice 4 made while the plot area held the copy of expGraph, whose
\* pointer dangles since the block of case 3 was left.
C12_Witness ==
    /\ lastCall.op = "menu"
    /\ lastCall.choice = 4
    /\ Len(lastCall.before) = 1
    /\ lastCall.before[1].function = "expFunc"
    /\ functions["expFunc"] = Destroyed
    /\ Len(lastCall.dereferenced) = 2
    /\ \A i \in 1..2 : lastCall.dereferenced[i].alive

(***************************************************************************)
(* Properties of the copies the plot area holds (CopySpec)                 *)
(***************************************************************************)
\* C13: addGraph stores a copy of the caller's graph as it is at the call;
\* sampling the caller's graph again, or reassigning its function, leaves
\* every graph the plot area holds as it was; the graphs held change only
\* in addGraph, clear and loadFromFile.
C13_SnapshotCopy ==
    [][/\ lastCall'.op \in {"generatePoints", "assign"} =>
              plotArea'.graphs = plotArea.graphs
       /\ lastCall'.op = "addGraph" =>
              /\ plotArea'.graphs[Len(plotArea'.graphs)] = callerGraphs[lastCall'.graph]
              /\ SubSeq(plotArea'.graphs, 1, Len(plotArea.graphs)) = plotArea.graphs
       /\ plotArea'.graphs # plotArea.graphs =>
              lastCall'.op \in {"addGraph", "clear", "loadFromFile"}]_vars

\* polyGraph sampled again after it was added: the copy held has the points
\* of the earlier sampling, and polyFunc has since been reassigned.
C13_Witness ==
    /\ lastCall.op = "generatePoints"
    /\ lastCall.graph = "polyGraph"
    /\ functions["polyFunc"] # MainPolynomial
    /\ \E i \in 1..Len(plotArea.graphs) :
          /\ plotArea.graphs[i].function = "polyFunc"
          /\ plotArea.graphs[i].points # <<>>
          /\ plotArea.graphs[i].points # callerGraphs["polyGraph"].points

(***************************************************************************)
(* Properties of deserialize (DeserializeSpec)                             *)
(***************************************************************************)
\* The number of whitespace-separated words of a text: the positions where
\* a character that is no whitespace starts the text or follows whitespace.
WordCount(s) ==
    Cardinality({i \in 1..Len(s) :
                    ~IsSpace(s[i]) /\ (i = 1 \/ IsSpace(s[i - 1]))})

\* C14: deserialize replaces the points of the graph by one point per
\* whitespace-separated word of the line, in the order of the words, the
\* malformed words included: the j-th point has the x read from the j-th
\* word (0 when the word starts with no number), and the Function pointer
\* stays.
C14_PointPerToken ==
    lastCall.op = "deserialize" =>
        LET graph == callerGraphs[lastCall.graph]
            words == Tokens(lastCall.data)
        IN /\ Len(graph.points) = WordCount(lastCall.data)
           /\ Len(words) = WordCount(lastCall.data)
           /\ \A j \in 1..Len(words) :
                 graph.points[j].x = ExtractDouble(words[j]).value
           /\ graph.function = FunctionOf(lastCall.graph)

\* A line of three words, two of them malformed, deserialized into a graph
\* that held two points.
C14_Witness ==
    /\ lastCall.op = "deserialize"
    /\ lastCall.previous = 2
    /\ WordCount(lastCall.data) = 3
    /\ \E j \in 1..3 : LeavesYUnassigned(Tokens(lastCall.data)[j])
    /\ Len(callerGraphs[lastCall.graph].points) = 3

=============================================================================
